---- MODULE Spec2Model ----
(***************************************************************************)
(* Model of the Monte Carlo Tree Search engine of                          *)
(* src/learning/alpha_zero/distributed/mcts.py (class MCTS).               *)
(*                                                                         *)
(* The engine's state is the six dictionaries Qsa, Nsa, Ns, Ps, Es, Vs.    *)
(* search() is recursive; it is modelled by an explicit call stack, one    *)
(* action per branch of search() and one for the code after the recursive  *)
(* call.  The game (Position Oracle) and the network (Evaluator) are       *)
(* external: every answer they give is chosen nondeterministically the     *)
(* first time it is asked for; getNextState is remembered in nextOf so     *)
(* that the game is a function of the board.                               *)
(*                                                                         *)
(* Numbers.  Values (v, Es, Qsa, the UCB score u) are fixed-point numbers  *)
(* in units of 1e-4 (Unit == 10000 stands for 1.0), so that the depth      *)
(* sentinel 1e-4 is 1 and sqrt(EPS) = sqrt(1e-8) is 1.  Policies are       *)
(* exact rationals: a vector of numerators over one denominator; a         *)
(* denominator 0 is numpy's nan (0/0).                                      *)
(***************************************************************************)
EXTENDS Integers, Sequences, FiniteSets, TLC

\* ---------------------------------------------------------------- bounds
NumPos == 3          \* position keys 1..NumPos
ActionSize == 2      \* game.getActionSize()
MaxSims == 3         \* largest args['numMCTSSims'] tried
MaxMoves == 3        \* largest args['maxMoves'] tried
MaxCalls == 2        \* getActionProb calls per engine
MaxTotalSims == 3    \* simulations per engine, over all its calls
MaxInvTemp == 2      \* temperatures tried: 0 and 1/k, k in 1..MaxInvTemp
MaxCpuct == 1        \* largest args['cpuct'] tried

\* ------------------------------------------------------ program constants
Unit == 10000        \* fixed-point scale: 1.0
EPS == 1             \* 1e-8, in units of Unit^-2
DepthSentinel == 1   \* 1e-4, in units of 1/Unit
NoAct == -1          \* best_act = -1

Pos == 1..NumPos
Actions == 0..(ActionSize - 1)

VARIABLES Qsa, Nsa, Ns, Ps, Es, Vs,      \* the engine's dictionaries
          args,                          \* numMCTSSims, maxMoves, cpuct
          pc, root, temp, i,             \* getActionProb's position
          cur, stack, ret,               \* search's call stack
          result, calls,                 \* what getActionProb gave back
          nextOf,                        \* the game's answers so far
          queries,                       \* collaborators the last step called
          path,                          \* getNextState calls of this simulation
          pre,                           \* Nsa, Qsa when this simulation began
          leaf                           \* how this simulation's descent ended

vars == <<Qsa, Nsa, Ns, Ps, Es, Vs, args, pc, root, temp, i, cur, stack, ret,
          result, calls, nextOf, queries, path, pre, leaf>>

\* ---------------------------------------------------------------- helpers
Empty == [x \in {} |-> 0]

Put(f, k, v) == [x \in (DOMAIN f) \cup {k} |-> IF x = k THEN v ELSE f[x]]

RECURSIVE SumOver(_, _)
SumOver(f, S) ==
    IF S = {} THEN 0
    ELSE LET x == CHOOSE y \in S : TRUE IN f[x] + SumOver(f, S \ {x})

RECURSIVE Gcd(_, _)
Gcd(a, b) == IF b = 0 THEN a ELSE Gcd(b, a % b)

RECURSIVE GcdOver(_, _, _)
GcdOver(f, S, g) ==
    IF S = {} THEN g
    ELSE LET x == CHOOSE y \in S : TRUE IN GcdOver(f, S \ {x}, Gcd(f[x], g))

\* A rational vector in lowest terms (the float it stands for is the same).
Reduce(P) ==
    LET g == GcdOver(P.num, Actions, P.den)
    IN  IF g = 0 THEN P
        ELSE [num |-> [a \in Actions |-> P.num[a] \div g], den |-> P.den \div g]

\* ------------------------------------------------- the collaborators' answers
\* game.getGameEnded(board, 1): 0 (not ended), a win, a loss.
Outcomes == {0, Unit, -Unit}

\* nnet.predict's value, in [-1, 1].
Values == {-Unit, 0, Unit}

\* nnet.predict's policy: a probability vector over the action space.  The
\* vectors tried put all mass on a nonempty set of actions, evenly, or rise
\* with the action index.
PolicyWeights ==
    {w \in [Actions -> {0, 1}] : \E a \in Actions : w[a] = 1}
        \cup {[a \in Actions |-> a + 1]}

Predict(w) == Reduce([num |-> w, den |-> SumOver(w, Actions)])

\* game.getValidMoves(board, 1): a 0/1 vector; the game may answer all zeros.
ValidMasks == [Actions -> {0, 1}]

\* game.getNextState's answer: a position, or Raises (an exception).
Raises == 0

\* --------------------------------------------------- search: the leaf's policy
\* self.Ps[s]*valids
MaskPolicy(P, valids) ==
    [num |-> [a \in Actions |-> P.num[a] * valids[a]], den |-> P.den]

\* np.sum(self.Ps[s]), a rational
SumPolicy(P) == [num |-> SumOver(P.num, Actions), den |-> P.den]

\* self.Ps[s] /= q; 0/0 is nan (num 0, den 0)
DivPolicy(P, q) ==
    Reduce([num |-> [a \in Actions |-> P.num[a] * q.den], den |-> P.den * q.num])

\* self.Ps[s] + valids
AddValids(P, valids) ==
    [num |-> [a \in Actions |-> P.num[a] + valids[a] * P.den], den |-> P.den]

\* lines 94-110: mask, then renormalise or fall back to the uniform mask
ExpandPolicy(raw, valids) ==
    LET masked   == MaskPolicy(raw, valids)
        sum_Ps_s == SumPolicy(masked)
    IN  IF sum_Ps_s.num > 0
        THEN DivPolicy(masked, sum_Ps_s)
        ELSE LET added == AddValids(masked, valids)
             IN  DivPolicy(added, SumPolicy(added))

\* ------------------------------------------------------ search: the selection
RECURSIVE IsqrtLoop(_, _, _)
IsqrtLoop(x, lo, hi) ==
    IF lo >= hi THEN lo
    ELSE LET mid == (lo + hi + 1) \div 2
         IN  IF mid * mid <= x THEN IsqrtLoop(x, mid, hi)
                               ELSE IsqrtLoop(x, lo, mid - 1)

\* math.sqrt of x (in units of Unit^-2), in units of 1/Unit, rounded down
SqrtFix(x) == IsqrtLoop(x, 0, 46340)

\* the upper confidence bound u of lines 123-126
Ucb(s, a) ==
    IF <<s, a>> \in DOMAIN Qsa
    THEN Qsa[<<s, a>>]
           + (args.cpuct * Ps[s].num[a] * SqrtFix(Ns[s] * Unit * Unit))
               \div (Ps[s].den * (1 + Nsa[<<s, a>>]))
    ELSE (args.cpuct * Ps[s].num[a] * SqrtFix(Ns[s] * Unit * Unit + EPS))
               \div Ps[s].den

\* the loop of lines 117-130; cur_best is -inf exactly while best_act is -1
RECURSIVE PickLoop(_, _, _, _)
PickLoop(s, a, cur_best, best_act) ==
    IF a >= ActionSize THEN best_act
    ELSE IF Vs[s][a] # 0
         THEN LET u == Ucb(s, a)
              IN  IF best_act = NoAct \/ u > cur_best
                  THEN PickLoop(s, a + 1, u, a)
                  ELSE PickLoop(s, a + 1, cur_best, best_act)
         ELSE PickLoop(s, a + 1, cur_best, best_act)

BestAct(s) == PickLoop(s, 0, 0, NoAct)

\* ------------------------------------------------------------- getActionProb
\* line 39
Counts(s) ==
    [a \in Actions |-> IF <<s, a>> \in DOMAIN Nsa THEN Nsa[<<s, a>>] ELSE 0]

\* np.argmax: the first index holding the maximum
RECURSIVE ArgMaxLoop(_, _, _)
RECURSIVE ArgMaxLoop_LastMax(_, _, _)
ArgMaxLoop_LastMax(counts, a, best) ==
    IF a >= ActionSize THEN best
    ELSE ArgMaxLoop_LastMax(counts, a + 1,
                            IF counts[a] >= counts[best] THEN a ELSE best)

ArgMaxLoop(counts, a, best) ==
    IF a >= ActionSize THEN best
    ELSE ArgMaxLoop(counts, a + 1, IF counts[a] > counts[best] THEN a ELSE best)

ArgMax(counts) == ArgMaxLoop(counts, 0, 0)

RECURSIVE Pow(_, _)
Pow(x, k) == IF k = 0 THEN 1 ELSE x * Pow(x, k - 1)

\* lines 40-48.  t is the temperature, the rational t.num/t.den.
ActionProbs(counts, t) ==
    IF t.num = 0
    THEN LET bestA == ArgMax(counts)
         IN  [kind |-> "probs",
              num |-> [a \in Actions |-> IF a = bestA THEN 1 ELSE 0], den |-> 1]
    ELSE LET powered == [a \in Actions |-> Pow(counts[a], t.den)]
             total   == SumOver(powered, Actions)
         IN  IF total = 0
             THEN [kind |-> "ZeroDivisionError",
                   num |-> [a \in Actions |-> 0], den |-> 0]
             ELSE [kind |-> "probs", num |-> powered, den |-> total]

\* ------------------------------------------------------------------ the state
NoRaw == [a \in Actions |-> 0]
NoLeaf == [kind |-> "none", s |-> 1, e |-> 0, raw |-> NoRaw]
NoResult == [kind |-> "none", num |-> [a \in Actions |-> 0], den |-> 0]
NoPre == [Nsa |-> Empty, Qsa |-> Empty]
NoCall == [s |-> 1, depth |-> 0]
Temps == {[num |-> 0, den |-> 1]} \cup {[num |-> 1, den |-> k] : k \in 1..MaxInvTemp}

\* MCTS.__init__: every dictionary empty
Init ==
    /\ Qsa = Empty /\ Nsa = Empty /\ Ns = Empty
    /\ Ps = Empty /\ Es = Empty /\ Vs = Empty
    /\ args \in [numMCTSSims : 1..MaxSims, maxMoves : 1..MaxMoves,
                cpuct : 1..MaxCpuct]
    /\ pc = "idle" /\ root = 1 /\ temp = [num |-> 0, den |-> 1] /\ i = 0
    /\ cur = NoCall /\ stack = <<>> /\ ret = 0
    /\ result = NoResult /\ calls = 0
    /\ nextOf = Empty
    /\ queries = {} /\ path = <<>> /\ pre = NoPre
    /\ leaf = NoLeaf

engine == <<Qsa, Nsa, Ns, Ps, Es, Vs>>

\* a caller calls getActionProb(canonicalBoard, temp); temp is not read before
\* line 40 and is drawn there
GetActionProb ==
    /\ pc = "idle" /\ calls < MaxCalls
    /\ (calls + 1) * args.numMCTSSims <= MaxTotalSims
    /\ \E r \in Pos : root' = r
    /\ i' = 0 /\ pc' = "loop" /\ calls' = calls + 1
    /\ result' = NoResult /\ queries' = {} /\ path' = <<>> /\ leaf' = NoLeaf
    /\ UNCHANGED <<engine, args, temp, cur, stack, ret, nextOf, pre>>

\* lines 36-37: one more self.search(canonicalBoard)
LoopSearch ==
    /\ pc = "loop" /\ i < args.numMCTSSims
    /\ i' = i + 1 /\ pc' = "call"
    /\ cur' = [s |-> root, depth |-> 0] /\ stack' = <<>>
    /\ pre' = [Nsa |-> Nsa, Qsa |-> Qsa] /\ path' = <<>> /\ leaf' = NoLeaf
    /\ queries' = {}
    /\ UNCHANGED <<engine, args, root, temp, ret, result, calls, nextOf>>

\* lines 38-48: the loop is over; build the answer
LoopDone ==
    /\ pc = "loop" /\ i >= args.numMCTSSims
    /\ \E t \in Temps : temp' = t /\ result' = ActionProbs(Counts(root), t)
    /\ pc' = "idle" /\ queries' = {"stringRepresentation", "getActionSize"}
    /\ i' = 0 /\ path' = <<>> /\ leaf' = NoLeaf /\ pre' = NoPre
    /\ UNCHANGED <<engine, args, root, cur, stack, ret, calls, nextOf>>

\* line 71
DepthLimitReached_OffByOne(depth) == depth > args.maxMoves

DepthLimitReached(depth) == depth >= args.maxMoves

SearchDepthGuard_NegativeSentinel ==
    /\ pc = "call" /\ DepthLimitReached(cur.depth)
    /\ Es' = Put(Es, cur.s, -DepthSentinel)
    /\ ret' = -Es'[cur.s]
    /\ pc' = "ret" /\ queries' = {"stringRepresentation"}
    /\ leaf' = [kind |-> "depth", s |-> cur.s, e |-> Es'[cur.s], raw |-> NoRaw]
    /\ UNCHANGED <<Qsa, Nsa, Ns, Ps, Vs, args, root, temp, i, cur, stack,
                   result, calls, nextOf, path, pre>>

\* lines 70-73: the depth guard
SearchDepthGuard ==
    /\ pc = "call" /\ DepthLimitReached(cur.depth)
    /\ Es' = Put(Es, cur.s, DepthSentinel)
    /\ ret' = -Es'[cur.s]
    /\ pc' = "ret" /\ queries' = {"stringRepresentation"}
    /\ leaf' = [kind |-> "depth", s |-> cur.s, e |-> Es'[cur.s], raw |-> NoRaw]
    /\ UNCHANGED <<Qsa, Nsa, Ns, Ps, Vs, args, root, temp, i, cur, stack,
                   result, calls, nextOf, path, pre>>

\* lines 75-76: what Es[s] holds after the memoisation; the game is asked only
\* for a key Es does not hold
GameEnded(s) == IF s \in DOMAIN Es THEN {Es[s]} ELSE Outcomes
Memoised(s, e) == IF s \in DOMAIN Es THEN Es ELSE Put(Es, s, e)
AskedEnded(s) == IF s \in DOMAIN Es THEN {} ELSE {"getGameEnded"}

\* lines 75-79: a terminal node
SearchTerminal ==
    /\ pc = "call" /\ ~DepthLimitReached(cur.depth)
    /\ \E e \in GameEnded(cur.s) :
          /\ Es' = Memoised(cur.s, e)
          /\ Es'[cur.s] # 0
          /\ ret' = -Es'[cur.s]
          /\ leaf' = [kind |-> "terminal", s |-> cur.s, e |-> Es'[cur.s], raw |-> NoRaw]
    /\ pc' = "ret" /\ queries' = {"stringRepresentation"} \cup AskedEnded(cur.s)
    /\ UNCHANGED <<Qsa, Nsa, Ns, Ps, Vs, args, root, temp, i, cur, stack,
                   result, calls, nextOf, path, pre>>

\* lines 81-114: a leaf node
SearchExpand ==
    /\ pc = "call" /\ ~DepthLimitReached(cur.depth)
    /\ \E e \in GameEnded(cur.s) :
          /\ Es' = Memoised(cur.s, e)
          /\ Es'[cur.s] = 0
    /\ cur.s \notin DOMAIN Ps
    /\ \E w \in PolicyWeights, v \in Values, valids \in ValidMasks :
          /\ Ps' = Put(Ps, cur.s, ExpandPolicy(Predict(w), valids))
          /\ Vs' = Put(Vs, cur.s, valids)
          /\ Ns' = Put(Ns, cur.s, 0)
          /\ ret' = -v
          /\ leaf' = [kind |-> "leaf", s |-> cur.s, e |-> 0, raw |-> w]
    /\ pc' = "ret"
    /\ queries' = {"stringRepresentation", "predict", "getValidMoves"}
                     \cup AskedEnded(cur.s)
    /\ UNCHANGED <<Qsa, Nsa, args, root, temp, i, cur, stack,
                   result, calls, nextOf, path, pre>>

\* game.getNextState(board, 1, a) and getCanonicalForm: a legal action leads to
\* a position; what the game does with another index is its own affair
NextStates(s, a) ==
    IF <<s, a>> \in DOMAIN nextOf THEN {nextOf[<<s, a>>]}
    ELSE IF a \in Actions /\ Vs[s][a] # 0 THEN Pos
    ELSE Pos \cup {Raises}

\* lines 116-136: an internal node; pick the action and recurse
SearchSelect ==
    /\ pc = "call" /\ ~DepthLimitReached(cur.depth)
    /\ \E e \in GameEnded(cur.s) :
          /\ Es' = Memoised(cur.s, e)
          /\ Es'[cur.s] = 0
    /\ cur.s \in DOMAIN Ps
    /\ LET a == BestAct(cur.s)
       IN  /\ \E next_s \in NextStates(cur.s, a) :
                 /\ next_s # Raises
                 /\ nextOf' = Put(nextOf, <<cur.s, a>>, next_s)
                 /\ cur' = [s |-> next_s, depth |-> cur.depth + 1]
           /\ stack' = Append(stack, [s |-> cur.s, a |-> a, depth |-> cur.depth])
           /\ path' = Append(path, <<cur.s, a>>)
    /\ pc' = "call"
    /\ queries' = {"stringRepresentation", "getActionSize", "getNextState",
                   "getCanonicalForm"} \cup AskedEnded(cur.s)
    /\ UNCHANGED <<Qsa, Nsa, Ns, Ps, Vs, args, root, temp, i, ret, result,
                   calls, pre, leaf>>

\* line 133 when the game raises: the exception leaves search and getActionProb
SearchNextStateRaises ==
    /\ pc = "call" /\ ~DepthLimitReached(cur.depth)
    /\ \E e \in GameEnded(cur.s) :
          /\ Es' = Memoised(cur.s, e)
          /\ Es'[cur.s] = 0
    /\ cur.s \in DOMAIN Ps
    /\ LET a == BestAct(cur.s)
       IN  /\ Raises \in NextStates(cur.s, a)
           /\ nextOf' = Put(nextOf, <<cur.s, a>>, Raises)
           /\ path' = Append(path, <<cur.s, a>>)
    /\ stack' = <<>> /\ pc' = "idle" /\ i' = 0 /\ cur' = NoCall
    /\ result' = [kind |-> "raised", num |-> [a \in Actions |-> 0], den |-> 0]
    /\ leaf' = [kind |-> "raised", s |-> cur.s, e |-> 0, raw |-> NoRaw]
    /\ queries' = {"stringRepresentation", "getActionSize", "getNextState"}
                     \cup AskedEnded(cur.s)
    /\ UNCHANGED <<Qsa, Nsa, Ns, Ps, Vs, args, root, temp, ret, calls, pre>>

\* line 147: return -v
BackupReturn_SameSign(v) == v

BackupReturn(v) == -v

\* lines 136-147: the recursive call returned v; back up and return -v
SearchBackup ==
    /\ pc = "ret" /\ stack # <<>>
    /\ LET f  == stack[Len(stack)]
           sa == <<f.s, f.a>>
           v  == ret
       IN  /\ IF sa \in DOMAIN Qsa
              THEN /\ Qsa' = Put(Qsa, sa, (Nsa[sa] * Qsa[sa] + v) \div (Nsa[sa] + 1))
                   /\ Nsa' = Put(Nsa, sa, Nsa[sa] + 1)
              ELSE /\ Qsa' = Put(Qsa, sa, v)
                   /\ Nsa' = Put(Nsa, sa, 1)
           /\ Ns' = Put(Ns, f.s, Ns[f.s] + 1)
           /\ ret' = BackupReturn(v)
           /\ cur' = [s |-> f.s, depth |-> f.depth]
    /\ stack' = SubSeq(stack, 1, Len(stack) - 1)
    /\ pc' = "ret" /\ queries' = {}
    /\ UNCHANGED <<Ps, Es, Vs, args, root, temp, i, result, calls, nextOf,
                   path, pre, leaf>>

\* the outermost search returned to line 37
SearchReturn ==
    /\ pc = "ret" /\ stack = <<>>
    /\ pc' = "loop" /\ queries' = {}
    /\ cur' = NoCall /\ ret' = 0
    /\ UNCHANGED <<engine, args, root, temp, i, stack, result, calls,
                   nextOf, path, pre, leaf>>

SearchNext ==
    \/ SearchDepthGuard
    \/ SearchTerminal
    \/ SearchExpand
    \/ SearchSelect
    \/ SearchNextStateRaises
    \/ SearchBackup
    \/ SearchReturn

Next ==
    \/ GetActionProb
    \/ LoopSearch
    \/ LoopDone
    \/ SearchNext

Spec == Init /\ [][Next]_vars

\* ===================================================================== claims
InSearch == pc \in {"call", "ret"}
Quiet == pc \in {"idle", "loop"}
Returned == pc = "idle" /\ result.kind \in {"probs", "ZeroDivisionError"}
RootCounts == Counts(root)
AllZero(valids) == \A a \in Actions : valids[a] = 0
\* the game has so far offered a legal action at every position it was asked about
LegalOracle == \A s \in DOMAIN Vs : ~AllZero(Vs[s])

\* C1: every getActionProb call with numMCTSSims >= 1 that comes back gives a
\* vector of non-negative entries that sum to 1, zero on every action illegal
\* at the root and on every root edge never visited.  (Stated for games that
\* offer a legal action wherever asked: it fails even for those.)
C1_ValidDistribution ==
    (Returned /\ LegalOracle) =>
        /\ result.kind = "probs"
        /\ result.den > 0
        /\ \A a \in Actions : result.num[a] >= 0
        /\ SumOver(result.num, Actions) = result.den
        /\ \A a \in Actions :
              (root \in DOMAIN Vs /\ Vs[root][a] = 0) => result.num[a] = 0
        /\ \A a \in Actions : RootCounts[a] = 0 => result.num[a] = 0

\* C2: with temp = 0 the answer is one-hot on the lowest-indexed action among
\* those with the largest visit count at the root.
C2_OneHotLowestArgmax ==
    (Returned /\ temp.num = 0) =>
        \E b \in Actions :
            /\ \A a \in Actions : RootCounts[a] <= RootCounts[b]
            /\ \A a \in Actions : a < b => RootCounts[a] < RootCounts[b]
            /\ result.kind = "probs" /\ result.den = 1
            /\ \A a \in Actions : result.num[a] = IF a = b THEN 1 ELSE 0

\* C2's case: temp = 0 and two root edges tie on a positive count
C2_Witness ==
    /\ Returned /\ temp.num = 0
    /\ \E a, b \in Actions :
          a < b /\ RootCounts[a] = RootCounts[b] /\ RootCounts[a] >= 1

\* C3: once Es[s] is set, no step of search changes it.  (Stated for games
\* that offer a legal action wherever asked: it fails even for those.)
C3_EsWriteOnce ==
    [][LegalOracle => \A s \in DOMAIN Es : s \in DOMAIN Es' /\ Es'[s] = Es[s]]_vars

\* a bound on the steps search has left: a call at depth d may still descend
\* to maxMoves and must then return through every frame
Rank ==
    IF pc = "call" THEN 2 * args.maxMoves - cur.depth + 2
    ELSE IF pc = "ret" THEN Len(stack) + 1
    ELSE 0

\* C4: search terminates and never nests deeper than maxMoves: the depth of a
\* call is the number of calls above it, never above maxMoves; while search
\* runs a step is always possible, and every step lowers a natural-number
\* rank; a call at depth >= maxMoves returns without recursing.
C4_TerminatesWithinMaxMoves ==
    /\ [](InSearch =>
            /\ cur.depth = Len(stack)
            /\ Len(stack) <= args.maxMoves
            /\ \A k \in 1..Len(stack) : stack[k].depth = k - 1
            /\ ENABLED SearchNext)
    /\ [][InSearch =>
            /\ Rank' < Rank /\ Rank' >= 0
            /\ (pc = "call" /\ cur.depth >= args.maxMoves) => pc' = "ret"]_vars

\* C4's case: a game that never ends and revisits a position drives search
\* to the depth limit
C4_Witness ==
    /\ pc = "ret" /\ leaf.kind = "depth"
    /\ Len(stack) = args.maxMoves /\ args.maxMoves = MaxMoves
    /\ \A k \in 1..Len(path) : path[k][2] \in Actions
    /\ \E j, k \in 1..Len(path) : j < k /\ path[j][1] = path[k][1]

VisitCountIsEdgeSum == \A s \in DOMAIN Ns : Ns[s] = SumOver(Counts(s), Actions)

\* C5: between calls, every expanded position s has Ns[s] equal to the sum of
\* Nsa[(s, a)] over the actions a, an absent edge counting 0.
C5_VisitCountIsEdgeSum == Quiet => VisitCountIsEdgeSum

Legal(s) == {a \in Actions : Vs[s][a] # 0}

PolicyMasked(s) ==
    /\ Ps[s].den > 0
    /\ \A a \in Actions \ Legal(s) : Ps[s].num[a] = 0
    /\ SumOver(Ps[s].num, Legal(s)) = Ps[s].den

UniformFallback(s, raw) ==
    (\A a \in Legal(s) : raw[a] = 0) =>
        \A a \in Legal(s) : Ps[s].num[a] * Cardinality(Legal(s)) = Ps[s].den

\* C6: the stored Ps[s] is 0 on every illegal action and sums to 1 over the
\* legal ones; when the network gave no mass to any legal action it is
\* uniform over the legal actions.
C6_PolicyMasked ==
    /\ \A s \in DOMAIN Ps : PolicyMasked(s)
    /\ leaf.kind = "leaf" => UniformFallback(leaf.s, leaf.raw)

\* C7: at a non-terminal position with no legal action search never picks an
\* action, never calls getNextState, never records an edge.
C7_NoActionWithoutLegalMove ==
    \A s \in DOMAIN Vs :
        AllZero(Vs[s]) =>
            /\ \A k \in 1..Len(path) : path[k][1] # s
            /\ \A sa \in DOMAIN Nsa : sa[1] # s

Sign(j) == IF j % 2 = 0 THEN 1 ELSE -1
OnPath(sa) == \E k \in 1..Len(path) : path[k] = sa
Crossings(sa) == Cardinality({k \in 1..Len(path) : path[k] = sa})

\* C8: a simulation that ends at a terminal position of memoised outcome e
\* leaves, on every edge of its path that was unvisited and is crossed once,
\* count 1 and value (-1)^j * e, j the plies down to the terminal position;
\* every other edge keeps its count and value.
C8_BackupAlternates ==
    (pc = "loop" /\ leaf.kind = "terminal") =>
        /\ \A k \in 1..Len(path) :
              LET sa == path[k]
                  j  == Len(path) - k + 1
              IN  (sa \notin DOMAIN pre.Nsa /\ Crossings(sa) = 1) =>
                      /\ sa \in DOMAIN Nsa /\ Nsa[sa] = 1
                      /\ Qsa[sa] = Sign(j) * leaf.e
        /\ \A sa \in DOMAIN Nsa :
              ~OnPath(sa) =>
                  /\ sa \in DOMAIN pre.Nsa
                  /\ Nsa[sa] = pre.Nsa[sa] /\ Qsa[sa] = pre.Qsa[sa]
        /\ \A sa \in DOMAIN pre.Nsa : sa \in DOMAIN Nsa

\* C8's case: two fresh edges above a terminal position, and an older edge
\* off the path
C8_Witness ==
    /\ pc = "loop" /\ leaf.kind = "terminal"
    /\ Len(path) >= 2
    /\ \A k \in 1..Len(path) :
          path[k] \notin DOMAIN pre.Nsa /\ path[k][2] \in Actions
    /\ pre.Nsa # Empty

\* C9: a call of search on an expanded position, below the depth limit, never
\* returns at once as a terminal or as a leaf: it selects an action and
\* recurses.  (Stated for games that offer a legal action wherever asked.)
C9_ExpandedStaysInternal ==
    [][(LegalOracle /\ pc = "call" /\ cur.s \in DOMAIN Ps
            /\ cur.depth < args.maxMoves) =>
          /\ leaf'.kind \notin {"terminal", "leaf"}
          /\ pc' = "call" /\ Len(stack') = Len(stack) + 1]_vars

AtDepthLimit == pc = "call" /\ cur.depth >= args.maxMoves

\* C10 as written: at depth >= maxMoves search memoises a negative value and
\* returns its negation, a positive one, asking nothing of the game or the
\* network and leaving Ps, Vs, Ns, Nsa, Qsa alone.  (Stated for games that
\* offer a legal action wherever asked.)
C10_SentinelNegative ==
    [][(AtDepthLimit /\ LegalOracle) =>
          /\ cur.s \in DOMAIN Es' /\ Es'[cur.s] < 0
          /\ ret' = -Es'[cur.s] /\ ret' > 0
          /\ queries' \cap {"getGameEnded", "predict", "getValidMoves"} = {}
          /\ UNCHANGED <<Ps, Vs, Ns, Nsa, Qsa>>]_vars

\* C10 amended: at depth >= maxMoves search memoises the positive 1e-4 and
\* returns its negation, -1e-4, at once, asking nothing of the game or the
\* network and leaving Ps, Vs, Ns, Nsa, Qsa alone.
C10_SentinelPositive ==
    [][AtDepthLimit =>
          /\ cur.s \in DOMAIN Es' /\ Es'[cur.s] = DepthSentinel
          /\ ret' = -Es'[cur.s] /\ ret' < 0
          /\ pc' = "ret"
          /\ queries' \cap {"getGameEnded", "predict", "getValidMoves"} = {}
          /\ UNCHANGED <<Ps, Vs, Ns, Nsa, Qsa>>]_vars

\* C10's case: the depth guard has just fired on a position never seen before
C10_Witness ==
    /\ pc = "ret" /\ leaf.kind = "depth" /\ ret = -DepthSentinel
    /\ cur.s \notin DOMAIN Ps

\* ----------------------------------------------------------------------------
\* C5 and C6 fail only at a position where the game offers no legal action
\* (the case of C7): for a game that offers one wherever asked, both hold.
VisitCountIsEdgeSumUnderLegalOracle ==
    (Quiet /\ LegalOracle) => VisitCountIsEdgeSum

PolicyMaskedUnderLegalOracle ==
    LegalOracle =>
        /\ \A s \in DOMAIN Ps : PolicyMasked(s)
        /\ leaf.kind = "leaf" => UniformFallback(leaf.s, leaf.raw)

====
